---- MODULE Spec2Model ----
(***************************************************************************)
(* A model of src/app.py, the Streamlit script "Universal CSV Analyzer".   *)
(*                                                                         *)
(* Streamlit runs the whole script from top to bottom on every widget      *)
(* interaction.  The session's state is the uploaded file, the token text  *)
(* input, the two selectboxes and st.session_state.mapping; the elements   *)
(* the last run put on the page are kept in `view`.  A run blocks inside   *)
(* requests.post, which is the only place where a run is split in two.     *)
(*                                                                         *)
(* A table is what pd.read_csv returns: column i is named by its header    *)
(* position i (read_csv makes the header names unique), has a dtype and a  *)
(* value per row.  A missing cell is NaN in a float64 column and Missing   *)
(* in an object column; int64 and bool columns have no missing cells.      *)
(***************************************************************************)
EXTENDS Integers, Sequences, FiniteSets, TLC

VARIABLES
    df,          \* the uploaded table, or NoFile
    api_token,   \* the sidebar text input
    target_col,  \* value of the "Primary Metric" selectbox (0: not rendered)
    label_col,   \* value of the "Category/Label" selectbox (0: not rendered)
    mapping,     \* st.session_state.mapping
    pc,          \* "idle", or where the running script is blocked
    inflight,    \* the HTTP requests sent and not yet answered
    press,       \* the button the last run handled and the calls it made
    last_res,    \* the HTTP outcome the last run received, or NoRes
    view,        \* the elements the last run rendered
    build        \* how the installed pandas/numpy behave where versions differ

vars == <<df, api_token, target_col, label_col, mapping, pc, inflight, press,
          last_res, view, build>>

----------------------------------------------------------------------------
\* Bounds of the model.
MaxCols == 2
MaxRows == 2
MaxAggRows == 3
MaxWide == 12

\* df.head(10) of line 83.
HeadLimit == 10

NoFile == [dtypes |-> <<>>, cols |-> <<>>, nrows |-> -1]
NaN == -1
Missing == ""
None == "None"
Strings == <<"A", "B", "C", "D", "E", "F", "G", "H", "I", "J", "K", "L", "M", "N">>
DTypes == {"int64", "float64", "bool", "object"}

Min(a, b) == IF a < b THEN a ELSE b

----------------------------------------------------------------------------
\* The tables pd.read_csv can return (line 48), as far as the bounds reach.

\* One column of n rows, filled the way its dtype allows: the first cell of a
\* float64 column and the second cell of an object column are missing.
SampleColumn(d, n) ==
    CASE d = "int64"   -> [r \in 1..n |-> 10 * r]
      [] d = "float64" -> [r \in 1..n |-> IF r = 1 THEN NaN ELSE 10 * r]
      [] d = "bool"    -> [r \in 1..n |-> r % 2 = 1]
      [] d = "object"  -> [r \in 1..n |-> IF r = 2 THEN Missing ELSE "A"]

\* A header-only CSV gives object columns; with rows (MaxRows of them), any dtype.
UITables ==
    { [dtypes |-> [c \in 1..k |-> "object"], cols |-> [c \in 1..k |-> <<>>], nrows |-> 0] :
        k \in 1..MaxCols }
    \cup
    UNION { { [dtypes |-> ds,
               cols   |-> [c \in 1..k |-> SampleColumn(ds[c], MaxRows)],
               nrows  |-> MaxRows] :
              ds \in [1..k -> DTypes] } :
            k \in 1..MaxCols }

\* read_csv gives a column without any string the dtype float64, not object.
ObjectColumns(n) == { col \in [1..n -> {"A", "B", Missing}] : \E r \in 1..n : col[r] # Missing }
FloatColumns(n) == [1..n -> {10, 20, 30, NaN}]
IntColumns(n) == [1..n -> {10, 20, 30}]

\* k labels, one row each; row r holds the metric 10 * ((r * m) % 4), 0 read as missing.
WideTables ==
    { [dtypes |-> <<"object", "float64">>,
       cols   |-> << [r \in 1..k |-> Strings[r]],
                     [r \in 1..k |-> IF (r * m) % 4 = 0 THEN NaN ELSE 10 * ((r * m) % 4)] >>,
       nrows  |-> k] : k \in (HeadLimit - 1)..MaxWide, m \in 1..3 }

\* A text column of labels and a metric column of floats or of integers.
AggTables ==
    UNION { { [dtypes |-> <<"object", "float64">>, cols |-> <<l, x>>, nrows |-> n] :
                l \in ObjectColumns(n), x \in FloatColumns(n) } : n \in 1..MaxAggRows }
    \cup
    UNION { { [dtypes |-> <<"object", "int64">>, cols |-> <<l, x>>, nrows |-> n] :
                l \in ObjectColumns(n), x \in IntColumns(n) } : n \in 1..MaxAggRows }
    \cup WideTables

----------------------------------------------------------------------------
\* Type Classifier (lines 52-53).

columns(t) == [c \in 1..Len(t.dtypes) |-> c]

\* np.number covers the integer and floating dtypes, not bool and not object.
IsNumber(d) == d \in {"int64", "float64"}

\* select_dtypes(include=['number']).columns.tolist()
num_cols(t) ==
    LET included(c) == IsNumber(t.dtypes[c]) IN SelectSeq(columns(t), included)

cat_cols_objects_only(t) ==
    LET included(c) == t.dtypes[c] = "object" IN SelectSeq(columns(t), included)

\* select_dtypes(exclude=['number']).columns.tolist()
cat_cols(t) ==
    LET excluded(c) == IsNumber(t.dtypes[c]) IN SelectSeq(columns(t), LAMBDA c : ~excluded(c))

----------------------------------------------------------------------------
\* Aggregator (line 83):
\*   df.groupby(label_col)[target_col].mean().sort_values(ascending=False).head(10).reset_index()

dtype(t, c) == t.dtypes[c]

isna(t, c, r) ==
    CASE dtype(t, c) = "float64" -> t.cols[c][r] = NaN
      [] dtype(t, c) = "object"  -> t.cols[c][r] = Missing
      [] OTHER                   -> FALSE

\* The place of a cell's value in the ascending order of its dtype's values.
KeyRank(t, c, r) ==
    CASE dtype(t, c) = "bool"   -> IF t.cols[c][r] THEN 1 ELSE 0
      [] dtype(t, c) = "object" -> CHOOSE i \in 1..Len(Strings) : Strings[i] = t.cols[c][r]
      [] OTHER                  -> t.cols[c][r]

\* groupby drops the rows whose key is missing (dropna=True).
GroupKeys(t, lc) == { KeyRank(t, lc, r) : r \in { q \in 1..t.nrows : ~isna(t, lc, q) } }

GroupRows(t, lc, k) == { r \in 1..t.nrows : ~isna(t, lc, r) /\ KeyRank(t, lc, r) = k }

\* groupby sorts the group keys ascending (sort=True).
RECURSIVE Ascending(_)
Ascending(S) ==
    IF S = {} THEN <<>>
    ELSE LET lo == CHOOSE x \in S : \A y \in S : x <= y
         IN <<lo>> \o Ascending(S \ {lo})

RECURSIVE GCD(_, _)
GCD(a, b) == IF b = 0 THEN a ELSE GCD(b, a % b)

\* A mean is the fraction sum/count in lowest terms; 0/0 is the undefined mean.
NaNMean == [num |-> 0, den |-> 0]
Fraction(a, b) == [num |-> a \div GCD(a, b), den |-> b \div GCD(a, b)]
IsDefined(m) == m.den # 0
Greater(m1, m2) == m1.num * m2.den > m2.num * m1.den

AsNumber(t, c, r) ==
    IF dtype(t, c) = "bool" THEN (IF t.cols[c][r] THEN 1 ELSE 0) ELSE t.cols[c][r]

RECURSIVE Sum(_, _, _)
Sum(t, c, rows) ==
    IF rows = {} THEN 0
    ELSE LET r == CHOOSE q \in rows : TRUE
         IN AsNumber(t, c, r) + Sum(t, c, rows \ {r})

\* mean() skips the missing values of the group (skipna=True).
mean(t, c, rows) ==
    LET valid == { r \in rows : ~isna(t, c, r) }
    IN IF valid = {} THEN NaNMean ELSE Fraction(Sum(t, c, valid), Cardinality(valid))

\* mean() of a group of strings raises TypeError.  Where pandas rejects the
\* column by its dtype (build.rejects_text_dtype) it raises for every text column;
\* where it computes group by group, it raises once a group holds a string.
mean_raises(t, lc, tc) ==
    /\ dtype(t, tc) = "object"
    /\ \/ build.rejects_text_dtype
       \/ \E k \in GroupKeys(t, lc) : \E r \in GroupRows(t, lc, k) : ~isna(t, tc, r)

groupby_mean(t, lc, tc) ==
    LET keys == Ascending(GroupKeys(t, lc))
    IN [ i \in 1..Len(keys) |->
           LET rows == GroupRows(t, lc, keys[i])
           IN [label |-> t.cols[lc][CHOOSE r \in rows : TRUE],
               mean  |-> mean(t, tc, rows)] ]

\* sort_values(ascending=False): the defined means descending, then the undefined
\* ones (na_position='last') in their order.  The default kind, quicksort, is not
\* stable: equal means keep their order where the build's sort happens to be stable
\* (build.stable_sort) and come out reversed otherwise.
sort_values_ascending(s) ==
    LET n == Len(s)
        first(j, i) == IF build.stable_sort THEN j < i ELSE j > i
        pos(i) ==
            IF IsDefined(s[i].mean)
            THEN 1 + Cardinality({ j \in 1..n :
                        /\ IsDefined(s[j].mean)
                        /\ \/ Greater(s[i].mean, s[j].mean)
                           \/ s[j].mean = s[i].mean /\ first(j, i) })
            ELSE 1 + Cardinality({ j \in 1..n : IsDefined(s[j].mean) })
                   + Cardinality({ j \in 1..n : ~IsDefined(s[j].mean) /\ j < i })
    IN [ p \in 1..n |-> s[CHOOSE i \in 1..n : pos(i) = p] ]

sort_values(s) ==
    LET n == Len(s)
        first(j, i) == IF build.stable_sort THEN j < i ELSE j > i
        pos(i) ==
            IF IsDefined(s[i].mean)
            THEN 1 + Cardinality({ j \in 1..n :
                        /\ IsDefined(s[j].mean)
                        /\ \/ Greater(s[j].mean, s[i].mean)
                           \/ s[j].mean = s[i].mean /\ first(j, i) })
            ELSE 1 + Cardinality({ j \in 1..n : IsDefined(s[j].mean) })
                   + Cardinality({ j \in 1..n : ~IsDefined(s[j].mean) /\ j < i })
    IN [ p \in 1..n |-> s[CHOOSE i \in 1..n : pos(i) = p] ]

head(s, n) == SubSeq(s, 1, Min(n, Len(s)))

\* reset_index() inserts the index as a column named label_col and raises
\* ValueError when the series is itself named label_col.
top_data(t, lc, tc) ==
    IF mean_raises(t, lc, tc) THEN [exc |-> "TypeError", rows |-> <<>>]
    ELSE IF lc = tc THEN [exc |-> "ValueError", rows |-> <<>>]
    ELSE [exc |-> "", rows |-> head(sort_values(groupby_mean(t, lc, tc)), HeadLimit)]

----------------------------------------------------------------------------
\* The remote service, as the script sees it: requests.post either raises
\* (transport failure) or returns a response with a status and a body.

Tokens == {"", "hf_token"}
NoRes == [transport |-> "none", status |-> 0, body |-> "none"]
Responses ==
    { [transport |-> "failed", status |-> 0, body |-> "none"] }
    \cup [transport : {"ok"}, status : {200}, body : {"content", "error", "not_json"}]
    \cup [transport : {"ok"}, status : {401}, body : {"content", "error"}]

\* res.json()['choices'][0]['message']['content']: the exception it raises, or "".
content_error(res) ==
    CASE res.body = "content"  -> ""
      [] res.body = "error"    -> "KeyError"
      [] res.body = "not_json" -> "JSONDecodeError"

\* get_column_mapping from the answer on (lines 37-41): the bare except turns
\* every exception into None; the status is not looked at.
get_column_mapping(res) ==
    IF res.transport = "failed" \/ content_error(res) # "" THEN None ELSE "content"

\* The summary handler from the answer on (lines 96-98), outside any try.
summary_outcome(res) ==
    IF res.transport = "failed" THEN [shown |-> FALSE, exc |-> "ConnectionError"]
    ELSE IF res.status = 200
         THEN [shown |-> content_error(res) = "", exc |-> content_error(res)]
         ELSE [shown |-> FALSE, exc |-> ""]

----------------------------------------------------------------------------
\* The script (lines 47-98).

\* Lines 65-66: the options of the two selectboxes.
TargetOptions(t) == IF num_cols(t) # <<>> THEN num_cols(t) ELSE columns(t)
LabelOptions(t) == IF cat_cols(t) # <<>> THEN cat_cols(t) ELSE columns(t)

selectbox_keeps_value(options, prev_options, prev_value) ==
    IF prev_value # 0 THEN prev_value ELSE options[1]

\* st.selectbox: a widget keeps its value from run to run while its options are
\* the same; with other options it is a new widget showing its first option.
selectbox(options, prev_options, prev_value) ==
    IF options = prev_options THEN prev_value ELSE options[1]

EmptyView ==
    [warning |-> FALSE, json |-> FALSE, hist |-> "none", bar |-> FALSE,
     top_data |-> <<>>, summary_button |-> FALSE, summary |-> FALSE, error |-> ""]

\* Lines 72-89: the histogram unless the column is empty, then the aggregation and
\* the bar chart, then the summary button; an exception ends the run where it is raised.
visuals(t, tc, lc, warning, json) ==
    LET agg == top_data(t, lc, tc)
    IN [warning |-> warning, json |-> json,
        hist |-> IF t.nrows = 0 THEN "skipped" ELSE "drawn",
        bar |-> agg.exc = "", top_data |-> agg.rows,
        summary_button |-> agg.exc = "", summary |-> FALSE, error |-> agg.exc]

NoPress == [button |-> "none", calls |-> 0]

Init ==
    /\ df = NoFile
    /\ api_token = ""
    /\ target_col = 0
    /\ label_col = 0
    /\ mapping = None
    /\ pc = "idle"
    /\ inflight = {}
    /\ press = NoPress
    /\ last_res = NoRes
    /\ view = EmptyView
    /\ build \in [rejects_text_dtype : BOOLEAN, stable_sort : BOOLEAN]

\* Line 15: the token is typed into the sidebar; the script runs again.
SetToken(tok) ==
    /\ pc = "idle"
    /\ tok # api_token
    /\ api_token' = tok
    /\ view' = IF df = NoFile THEN EmptyView
               ELSE visuals(df, target_col, label_col, FALSE, FALSE)
    /\ press' = NoPress
    /\ last_res' = NoRes
    /\ UNCHANGED <<df, target_col, label_col, mapping, pc, inflight, build>>

\* Lines 45-48: a file is uploaded (the first, or another in its place).
Upload(t) ==
    /\ pc = "idle"
    /\ t # df
    /\ df' = t
    /\ target_col' = selectbox(TargetOptions(t), TargetOptions(df), target_col)
    /\ label_col' = selectbox(LabelOptions(t), LabelOptions(df), label_col)
    /\ view' = visuals(t, target_col', label_col', FALSE, FALSE)
    /\ press' = NoPress
    /\ last_res' = NoRes
    /\ UNCHANGED <<api_token, mapping, pc, inflight, build>>

\* Line 47: the file is removed; nothing below `if uploaded:` runs.
ClearUpload ==
    /\ pc = "idle"
    /\ df # NoFile
    /\ df' = NoFile
    /\ target_col' = 0
    /\ label_col' = 0
    /\ view' = EmptyView
    /\ press' = NoPress
    /\ last_res' = NoRes
    /\ UNCHANGED <<api_token, mapping, pc, inflight, build>>

\* Line 65: another metric is chosen.
SelectTarget(c) ==
    /\ pc = "idle"
    /\ df # NoFile
    /\ c \in { TargetOptions(df)[i] : i \in 1..Len(TargetOptions(df)) }
    /\ c # target_col
    /\ target_col' = c
    /\ view' = visuals(df, c, label_col, FALSE, FALSE)
    /\ press' = NoPress
    /\ last_res' = NoRes
    /\ UNCHANGED <<df, api_token, label_col, mapping, pc, inflight, build>>

\* Line 66: another label column is chosen.
SelectLabel(c) ==
    /\ pc = "idle"
    /\ df # NoFile
    /\ c \in { LabelOptions(df)[i] : i \in 1..Len(LabelOptions(df)) }
    /\ c # label_col
    /\ label_col' = c
    /\ view' = visuals(df, target_col, c, FALSE, FALSE)
    /\ press' = NoPress
    /\ last_res' = NoRes
    /\ UNCHANGED <<df, api_token, target_col, mapping, pc, inflight, build>>

PressAutoDetectAlwaysCalls ==
    /\ pc = "idle"
    /\ df # NoFile
    /\ pc' = "mapping_wait"
    /\ inflight' = {[to |-> "mapping", bearer |-> api_token]}
    /\ press' = [button |-> "auto", calls |-> 1]
    /\ view' = EmptyView
    /\ last_res' = NoRes
    /\ UNCHANGED <<df, api_token, target_col, label_col, mapping, build>>

\* Lines 56-60: "Auto-Detect Columns with AI".  Without a token the run warns and
\* goes on to the end; with one it posts the request and blocks.
PressAutoDetect ==
    /\ pc = "idle"
    /\ df # NoFile
    /\ IF api_token = ""
       THEN /\ view' = visuals(df, target_col, label_col, TRUE, FALSE)
            /\ press' = [button |-> "auto", calls |-> 0]
            /\ UNCHANGED <<pc, inflight>>
       ELSE /\ pc' = "mapping_wait"
            /\ inflight' = {[to |-> "mapping", bearer |-> api_token]}
            /\ press' = [button |-> "auto", calls |-> 1]
            /\ view' = EmptyView
    /\ last_res' = NoRes
    /\ UNCHANGED <<df, api_token, target_col, label_col, mapping, build>>

\* Lines 38-41, 61-62 and on: the answer arrives, the mapping is stored and shown
\* with st.json, and the run goes on to the end.
MappingResponse(res) ==
    /\ pc = "mapping_wait"
    /\ inflight' = {}
    /\ mapping' = get_column_mapping(res)
    /\ view' = visuals(df, target_col, label_col, FALSE, TRUE)
    /\ pc' = "idle"
    /\ last_res' = res
    /\ UNCHANGED <<df, api_token, target_col, label_col, press, build>>

\* Lines 89-96: "Generate Summary for THIS File", a button of the last run's page.
\* The run redraws the charts, then posts the request and blocks.
PressSummary ==
    /\ pc = "idle"
    /\ df # NoFile
    /\ view.summary_button
    /\ LET v == visuals(df, target_col, label_col, FALSE, FALSE)
       IN /\ view' = v
          /\ IF v.summary_button
             THEN /\ pc' = "summary_wait"
                  /\ inflight' = {[to |-> "summary", bearer |-> api_token]}
                  /\ press' = [button |-> "summary", calls |-> 1]
             ELSE /\ press' = [button |-> "summary", calls |-> 0]
                  /\ UNCHANGED <<pc, inflight>>
    /\ last_res' = NoRes
    /\ UNCHANGED <<df, api_token, target_col, label_col, mapping, build>>

\* Lines 96-98: the answer arrives; the summary is shown only on status 200.
SummaryResponse(res) ==
    /\ pc = "summary_wait"
    /\ inflight' = {}
    /\ view' = [view EXCEPT !.summary = summary_outcome(res).shown,
                            !.error = summary_outcome(res).exc]
    /\ pc' = "idle"
    /\ last_res' = res
    /\ UNCHANGED <<df, api_token, target_col, label_col, mapping, press, build>>

Next ==
    \/ \E tok \in Tokens : SetToken(tok)
    \/ \E t \in UITables : Upload(t)
    \/ ClearUpload
    \/ \E c \in 1..MaxCols : SelectTarget(c)
    \/ \E c \in 1..MaxCols : SelectLabel(c)
    \/ PressAutoDetect
    \/ \E res \in Responses : MappingResponse(res)
    \/ PressSummary
    \/ \E res \in Responses : SummaryResponse(res)

Spec == Init /\ [][Next]_vars

\* The aggregation on its own: a file of a label column and a metric column has
\* just been uploaded, and the script runs on it for the first time (lines 48-85).
InitAgg ==
    /\ df \in AggTables
    /\ api_token = ""
    /\ target_col = 0
    /\ label_col = 0
    /\ mapping = None
    /\ pc = "idle"
    /\ inflight = {}
    /\ press = NoPress
    /\ last_res = NoRes
    /\ view = EmptyView
    /\ build \in [rejects_text_dtype : BOOLEAN, stable_sort : BOOLEAN]

FirstRun ==
    /\ pc = "idle"
    /\ df # NoFile
    /\ target_col = 0
    /\ target_col' = selectbox(TargetOptions(df), <<>>, 0)
    /\ label_col' = selectbox(LabelOptions(df), <<>>, 0)
    /\ view' = visuals(df, target_col', label_col', FALSE, FALSE)
    /\ UNCHANGED <<df, api_token, mapping, pc, inflight, press, last_res, build>>

SpecAgg == InitAgg /\ [][FirstRun]_vars

----------------------------------------------------------------------------
\* Properties.

ColumnSet(s) == { s[i] : i \in 1..Len(s) }
InOriginalOrder(s) == \A i, j \in 1..Len(s) : i < j => s[i] < s[j]
Loaded == df # NoFile
AggregationRaised == view.error \in {"TypeError", "ValueError"}
DistinctLabels(t, lc) == { t.cols[lc][r] : r \in { q \in 1..t.nrows : ~isna(t, lc, q) } }
NonIncreasing(v) ==
    \A i \in 1..(Len(v) - 1) :
        IsDefined(v[i].mean) /\ IsDefined(v[i + 1].mean) => ~Greater(v[i + 1].mean, v[i].mean)
StrictlyDescending(v) ==
    \A i \in 1..(Len(v) - 1) :
        IsDefined(v[i].mean) /\ IsDefined(v[i + 1].mean) => Greater(v[i].mean, v[i + 1].mean)
UndefinedLast(v) ==
    \A i, j \in 1..Len(v) : i < j /\ ~IsDefined(v[i].mean) => ~IsDefined(v[j].mean)
ExampleTable ==
    [dtypes |-> <<"object", "float64">>, cols |-> << <<"A", "A", "B">>, <<10, 20, 30>> >>, nrows |-> 3]
ExampleView ==
    << [label |-> "B", mean |-> [num |-> 30, den |-> 1]],
       [label |-> "A", mean |-> [num |-> 15, den |-> 1]] >>

\* C1: for every loaded table, num_cols and cat_cols partition the column names:
\* together they hold every column, no column is in both, and each list keeps the
\* columns in the order of the table.
C1_Partition ==
    Loaded =>
        /\ ColumnSet(num_cols(df)) \cup ColumnSet(cat_cols(df)) = ColumnSet(columns(df))
        /\ ColumnSet(num_cols(df)) \cap ColumnSet(cat_cols(df)) = {}
        /\ InOriginalOrder(num_cols(df))
        /\ InOriginalOrder(cat_cols(df))

\* A loaded table with a numeric column and a bool column, loaded and classified.
C1_Witness ==
    /\ Loaded
    /\ num_cols(df) # <<>>
    /\ \E c \in ColumnSet(cat_cols(df)) : dtype(df, c) = "bool"
    /\ view.hist = "drawn"

C3_NonNumericMetricNeverRaises ==
    (Loaded /\ pc = "idle" /\ target_col \notin ColumnSet(num_cols(df))
        /\ label_col # target_col) =>
        ~AggregationRaised

\* C4 as claimed: when the call fails in transport, the response is not 2xx, or the
\* body does not parse into choices[0].message.content, get_column_mapping returns
\* None and no exception reaches the caller.
C4_NoMappingOnFailure ==
    (pc = "idle" /\ press.button = "auto" /\ last_res # NoRes
        /\ (\/ last_res.transport = "failed"
            \/ last_res.status < 200
            \/ last_res.status > 299
            \/ content_error(last_res) # "")) =>
        /\ mapping = None
        /\ view.error \notin {"ConnectionError", "KeyError", "JSONDecodeError"}

\* C5 as claimed: a transport or authentication failure of the summary request
\* (network error, non-2xx response) shows no summary and raises no error.
C5_SummaryFailureSwallowed ==
    (pc = "idle" /\ press.button = "summary" /\ last_res # NoRes
        /\ (\/ last_res.transport = "failed"
            \/ last_res.status < 200
            \/ last_res.status > 299)) =>
        /\ ~view.summary
        /\ view.error = ""

\* C6 as claimed: whenever a table is loaded the summary action can be invoked and
\* issues its request, whatever the row count and whatever became of the
\* aggregation and the charts.
C6_SummaryAlwaysAvailable ==
    /\ (Loaded /\ pc = "idle") => view.summary_button
    /\ press.button = "summary" => press.calls = 1

\* C7 as claimed: without numeric columns every column is offered as the metric,
\* without non-numeric columns every column is offered as the label, and in both
\* cases some offered selection leads to a rendered result.
C7_FallbackNeverBlocks ==
    Loaded =>
        /\ num_cols(df) = <<>> => TargetOptions(df) = columns(df)
        /\ cat_cols(df) = <<>> => LabelOptions(df) = columns(df)
        /\ (num_cols(df) = <<>> \/ cat_cols(df) = <<>>) =>
              \E tc \in ColumnSet(TargetOptions(df)), lc \in ColumnSet(LabelOptions(df)) :
                  top_data(df, lc, tc).exc = ""

\* C8 as claimed: for a table without rows the histogram step draws no bucket and
\* the aggregation step gives an empty view, and neither raises.
C8_EmptyTableRendersEmpty ==
    (Loaded /\ df.nrows = 0 /\ pc = "idle") =>
        /\ view.hist # "drawn"
        /\ view.top_data = <<>>
        /\ ~AggregationRaised

\* C9 (amended): with a table loaded, the selection consists of column names of
\* that table, and the metric column is in the numeric subset whenever that subset
\* is not empty.
C9_Selection ==
    Loaded =>
        /\ target_col \in ColumnSet(columns(df))
        /\ label_col \in ColumnSet(columns(df))
        /\ num_cols(df) # <<>> => target_col \in ColumnSet(num_cols(df))

\* Both selectors moved off their first option, on a table with two numeric columns.
C9_Witness ==
    /\ Loaded
    /\ Len(num_cols(df)) = 2
    /\ target_col = 2
    /\ label_col = 2

\* C9 as claimed: the metric column is always in the numeric subset.
C9_MetricAlwaysNumeric ==
    Loaded =>
        /\ target_col \in ColumnSet(columns(df))
        /\ label_col \in ColumnSet(columns(df))
        /\ target_col \in ColumnSet(num_cols(df))

====
